---- MODULE Spec2Model ----
(***************************************************************************)
(* State-machine model of the Popup widget (src/popup.copy.js).            *)
(*                                                                         *)
(* JavaScript values that can be undefined/null are encoded as strings     *)
(* ("undefined", "null", "true", "false", "el"); every handler and every   *)
(* callback is a record so that values of one slot are always comparable.  *)
(* Each public method and each event handler of the source is one          *)
(* operator over the whole program state s (a record of the variables);    *)
(* an exception raised by the source sets s.err and skips the rest of the  *)
(* call, keeping the writes made before the throw.                         *)
(***************************************************************************)
EXTENDS Integers, Sequences, FiniteSets, TLC

(* ---- bounds of the model ---- *)
MaxNat    == 3      \* natural content width/height range 1..MaxNat
MaxView   == 2      \* viewport is MarginW+1..MarginW+MaxView (same for height)
MaxBar    == 1      \* scroll bar thickness 0..MaxBar
MaxTimers == 1      \* cap on pending deferred size calculations per instance

(* ---- program constants ---- *)
MarginW == 100
MarginH == 80
Auto    == 0 - 1    \* an inline width/height of '' (not set)

Inst  == {"p1", "p2"}
Elems == {"body", "div"}
Hooks == {"beforeClose", "afterClose", "okCallback", "cancelCallback"}

(* ---- values ---- *)
NoCb      == [by |-> "-", hook |-> "undefined"]
Cb(i, h)  == [by |-> i, hook |-> h]
IsFn(c)   == c.hook # "undefined"

UndefH    == [kind |-> "undefined", owner |-> "-"]
NullH     == [kind |-> "null", owner |-> "-"]
PageH     == [kind |-> "page", owner |-> "-"]
LockH(i)  == [kind |-> "lock", owner |-> i]
\* assigning undefined to an event-handler attribute stores null
ToHandler(h) == IF h.kind = "undefined" THEN NullH ELSE h

Truthy(v) == v = "true"
Bool(b)   == IF b THEN "true" ELSE "false"

Ev(e, i, c, a) == [ev |-> e, who |-> i, cb |-> c, arg |-> a]

VARIABLES inst, dom, target, _eventsList, client, scrollBar, fired, timers,
          trace, last

vars == <<inst, dom, target, _eventsList, client, scrollBar, fired, timers,
          trace, last>>

\* the whole program state as one record
S == [inst |-> inst, dom |-> dom, target |-> target, ev |-> _eventsList,
      client |-> client, scrollBar |-> scrollBar, fired |-> fired,
      timers |-> timers, trace |-> <<>>, err |-> FALSE, stopped |-> FALSE,
      ret |-> "undefined"]

Throw(s) == [s EXCEPT !.err = TRUE]
Log(s, e) == [s EXCEPT !.trace = Append(@, e)]

(* ---- capability shims ---- *)
\* document.querySelector: the page holds one element matching "match"
querySelector(selector) == IF selector = "match" THEN "div" ELSE "null"
\* a && b on element references
JsAnd(a, b) == IF a = "null" THEN a ELSE b
JsOr(a, b)  == IF a = "null" THEN b ELSE a
hasClass(classes, cls) == cls \in classes

(* ---- constructor ---- *)
\* made, built, given, opened and preOpen are history fields: whether the
\* constructor ran, which call built the DOM, the callbacks that call was
\* given, whether open() ran, and the target's scroll handler at the first
\* open(); the other fields are the fields of the source
NoInst ==
  [made |-> FALSE, built |-> "-", given |-> {}, opened |-> FALSE, preOpen |-> UndefH,
   targetEl |-> "undefined", disposable |-> "undefined", mask |-> "undefined",
   closeOnMask |-> FALSE, popupEl |-> "undefined", containerEl |-> "undefined",
   maskEl |-> "undefined", innerEl |-> "undefined", closeEl |-> "undefined",
   autoSize |-> FALSE, _scrollEvent |-> UndefH, isClosed |-> "undefined",
   prefixClass |-> "undefined", delayCalculate |-> "undefined"]

TargetOf(selector) ==
  IF selector # "none" THEN JsAnd(querySelector(selector), "body") ELSE "body"

Popup(selector) ==
  [NoInst EXCEPT !.made = TRUE,
                 !.targetEl = TargetOf(selector),
                 !.disposable = "true", !.mask = "true",
                 !.closeOnMask = FALSE, !.autoSize = TRUE,
                 !._scrollEvent = UndefH]

NoDom ==
  [attached |-> FALSE, parent |-> "-", display |-> "", natW |-> 0, natH |-> 0,
   hasMaskEl |-> FALSE, listeners |-> {},
   innerW |-> Auto, innerH |-> Auto, contW |-> Auto, contH |-> Auto,
   overflowX |-> "", overflowY |-> "", contPos |-> "", wrapW |-> Auto,
   wrapH |-> Auto, wrapPos |-> ""]


(* ---- layout measurement ---- *)
\* innerEl.offsetWidth: 0 while the wrapper is detached or hidden, the inline
\* width when one is set, else the content's natural width plus the vertical
\* scroll bar the element shows
offsetWidth(s, i) ==
  LET d == s.dom[i] IN
  IF ~d.attached \/ d.display = "none" THEN 0
  ELSE IF d.innerW # Auto THEN d.innerW
  ELSE d.natW + (IF d.overflowY = "scroll" THEN s.scrollBar ELSE 0)

offsetHeight(s, i) ==
  LET d == s.dom[i] IN
  IF ~d.attached \/ d.display = "none" THEN 0
  ELSE IF d.innerH # Auto THEN d.innerH
  ELSE d.natH + (IF d.overflowX = "scroll" THEN s.scrollBar ELSE 0)

(* ---- _calculateSize ---- *)
\* lines 544-553: the width clamp, and the height measured again after it
ClampWidth(s, i, adjustWidth, adjustHeight, maxWidth) ==
  IF adjustWidth > maxWidth - MarginW
  THEN LET s1 == [s EXCEPT !.dom[i].overflowX = "scroll"] IN
       [s |-> s1, w |-> maxWidth - MarginW, h |-> offsetHeight(s1, i)]
  ELSE [s |-> [s EXCEPT !.dom[i].overflowX = "hidden"],
        w |-> adjustWidth, h |-> adjustHeight]

\* lines 554-563: the height clamp, and the width measured again after it
ClampHeight(s, i, adjustWidth, adjustHeight, maxHeight) ==
  IF adjustHeight > maxHeight - MarginH
  THEN LET s1 == [s EXCEPT !.dom[i].overflowY = "scroll"] IN
       [s |-> s1, w |-> offsetWidth(s1, i), h |-> maxHeight - MarginH]
  ELSE [s |-> [s EXCEPT !.dom[i].overflowY = "hidden"],
        w |-> adjustWidth, h |-> adjustHeight]

\* lines 565-588: the sizes and the position applied
ApplySize(s, i, adjustWidth, adjustHeight) ==
  LET s1 == [s EXCEPT !.dom[i].innerW = adjustWidth,
                      !.dom[i].innerH = adjustHeight,
                      !.dom[i].contW = adjustWidth,
                      !.dom[i].contH = adjustHeight] IN
  IF Truthy(s.inst[i].mask)
  THEN [s1 EXCEPT !.dom[i].contPos = "centered"]
  ELSE IF s.inst[i].popupEl # "el"
  THEN Throw([s1 EXCEPT !.dom[i].contPos = "relative"])
  ELSE [s1 EXCEPT !.dom[i].contPos = "relative",
                  !.dom[i].wrapW = adjustHeight,
                  !.dom[i].wrapH = adjustHeight,
                  !.dom[i].wrapPos = "centered"]

_calculateSize(s, i) ==
  LET p == s.inst[i] IN
  IF p.innerEl # "el" THEN Throw(s)
  ELSE
    LET s1 == [s EXCEPT !.dom[i].innerW = Auto, !.dom[i].innerH = Auto]
        adjustWidth  == offsetWidth(s1, i)
        adjustHeight == offsetHeight(s1, i)
        rootEl == IF p.targetEl = "body" THEN "documentElement" ELSE p.targetEl
    IN
    IF rootEl \notin DOMAIN s.client THEN Throw(s1)
    ELSE
      LET maxHeight == s.client[rootEl].h
          maxWidth  == s.client[rootEl].w
          a == ClampWidth(s1, i, adjustWidth, adjustHeight, maxWidth)
          b == ClampHeight(a.s, i, a.w, a.h, maxHeight)
      IN ApplySize(b.s, i, b.w, b.h)

(* ---- _createDOM and _bindEvents ---- *)
_createDOM(s, i, size) ==
  LET p  == s.inst[i]
      s1 == [s EXCEPT !.inst[i].popupEl = "el", !.inst[i].containerEl = "el",
                      !.inst[i].innerEl = "el", !.inst[i].maskEl = "el",
                      !.inst[i].closeEl = "el",
                      !.dom[i] = [NoDom EXCEPT !.natW = size[1], !.natH = size[2]]]
  IN
  IF p.targetEl \notin Elems THEN Throw(s1)
  ELSE [s1 EXCEPT !.target[p.targetEl].position = "relative",
                  !.dom[i].hasMaskEl = Truthy(p.mask),
                  !.dom[i].display = "none",
                  !.dom[i].attached = TRUE,
                  !.dom[i].parent = p.targetEl]

_bindEvents(s, i) ==
  IF s.inst[i].containerEl # "el" THEN Throw(s)
  ELSE [s EXCEPT !.dom[i].listeners =
          @ \cup {"container"} \cup (IF Truthy(s.inst[i].mask) THEN {"mask"} ELSE {})]

(* ---- lifecycle operations ---- *)
\* lines 206-215: the size calculation of open(), now or on a timer
OpenSize(s, i) ==
  IF s.inst[i].autoSize
  THEN IF s.inst[i].delayCalculate # "undefined"
       THEN [s EXCEPT !.timers[i] = @ + 1]
       ELSE _calculateSize(s, i)
  ELSE s

\* variant of the scroll lock: the handler is saved on every open()
LockScrollEveryOpen(s, i) ==
  LET p == s.inst[i] IN
  IF Truthy(p.mask)
  THEN [s EXCEPT !.inst[i]._scrollEvent = s.target[p.targetEl].onscroll,
                 !.target[p.targetEl].onscroll = LockH(i)]
  ELSE s

\* lines 193-202: the scroll lock of open()
LockScroll(s, i) ==
  LET p == s.inst[i] IN
  IF Truthy(p.mask)
  THEN LET s1 == IF p._scrollEvent.kind = "undefined"
                 THEN [s EXCEPT !.inst[i]._scrollEvent = s.target[p.targetEl].onscroll]
                 ELSE s
       IN [s1 EXCEPT !.target[p.targetEl].onscroll = LockH(i)]
  ELSE s

\* history: the target's scroll handler when open() first runs
FirstOpen(s, i) ==
  IF s.inst[i].opened THEN s
  ELSE [s EXCEPT !.inst[i].opened = TRUE,
                 !.inst[i].preOpen = s.target[s.inst[i].targetEl].onscroll]

\* variant of open(): the wrapper's display is left as it was
openKeepsDisplay(s, i) ==
  LET p == s.inst[i] IN
  IF p.targetEl \notin Elems THEN Throw(s)
  ELSE
    LET s1 == LockScroll([FirstOpen(s, i) EXCEPT !.inst[i].isClosed = "false"], i) IN
    IF p.popupEl # "el" THEN Throw(s1)
    ELSE
      LET s2 == OpenSize(s1, i) IN
      IF s2.err THEN s2 ELSE [s2 EXCEPT !.ret = "this"]

open(s, i) ==
  LET p == s.inst[i] IN
  IF p.targetEl \notin Elems THEN Throw(s)
  ELSE
    LET s1 == LockScroll([FirstOpen(s, i) EXCEPT !.inst[i].isClosed = "false"], i) IN
    IF p.popupEl # "el" THEN Throw(s1)
    ELSE
      LET s2 == OpenSize([s1 EXCEPT !.dom[i].display = ""], i) IN
      IF s2.err THEN s2 ELSE [s2 EXCEPT !.ret = "this"]

\* variant of close()'s restore: the mask option is not consulted
UnlockScrollAlways(s, i) ==
  LET p == s.inst[i] IN
  IF p.targetEl \notin Elems THEN Throw(s)
  ELSE [s EXCEPT !.target[p.targetEl].onscroll = ToHandler(p._scrollEvent)]

\* lines 230-233: the scroll handler put back by close()
UnlockScroll(s, i) ==
  LET p == s.inst[i] IN
  IF Truthy(p.mask)
  THEN IF p.targetEl \notin Elems THEN Throw(s)
       ELSE [s EXCEPT !.target[p.targetEl].onscroll = ToHandler(p._scrollEvent)]
  ELSE s

\* lines 285-290: the references released by destroy()
Teardown(s, i) ==
  LET p == s.inst[i] IN
  IF p.targetEl \notin Elems THEN Throw(s)
  ELSE
    LET s1 == [s EXCEPT !.target[p.targetEl].position = "",
                        !.inst[i].targetEl = "null",
                        !.inst[i].disposable = "null",
                        !.inst[i].mask = "null"] IN
    IF p.popupEl # "el" \/ ~s.dom[i].attached THEN Throw(s1)
    ELSE Log([s1 EXCEPT !.dom[i].attached = FALSE, !.dom[i].parent = "-",
                        !.inst[i].popupEl = "null", !.ret = "undefined"],
             Ev("teardown", i, NoCb, "-"))

RECURSIVE close(_, _), destroy(_, _)

\* variant of close(): the instance is destroyed whatever disposable says
closeDestroysAlways(s, i) ==
  LET s1 == UnlockScroll([s EXCEPT !.inst[i].isClosed = "true"], i) IN
  IF s1.err THEN s1
  ELSE IF s1.inst[i].popupEl # "el" THEN Throw(s1)
  ELSE
    LET s2 == Log([s1 EXCEPT !.dom[i].display = "none"], Ev("close", i, NoCb, "-"))
        s3 == destroy(s2, i)
    IN IF s3.err THEN s3 ELSE [s3 EXCEPT !.ret = "this"]

\* variant of close(): the instance is returned also after a destroy
closeReturnsInstance(s, i) ==
  LET s1 == UnlockScroll([s EXCEPT !.inst[i].isClosed = "true"], i) IN
  IF s1.err THEN s1
  ELSE IF s1.inst[i].popupEl # "el" THEN Throw(s1)
  ELSE
    LET s2 == Log([s1 EXCEPT !.dom[i].display = "none"], Ev("close", i, NoCb, "-")) IN
    IF Truthy(s2.inst[i].disposable)
    THEN LET s3 == destroy(s2, i) IN
         IF s3.err THEN s3 ELSE [s3 EXCEPT !.ret = "this"]
    ELSE [s2 EXCEPT !.ret = "this"]

\* variant of close(): the instance is hidden and never destroyed
closeHidesOnly(s, i) ==
  LET s1 == UnlockScroll([s EXCEPT !.inst[i].isClosed = "true"], i) IN
  IF s1.err THEN s1
  ELSE IF s1.inst[i].popupEl # "el" THEN Throw(s1)
  ELSE [Log([s1 EXCEPT !.dom[i].display = "none"], Ev("close", i, NoCb, "-"))
          EXCEPT !.ret = "this"]

close(s, i) ==
  LET s1 == UnlockScroll([s EXCEPT !.inst[i].isClosed = "true"], i) IN
  IF s1.err THEN s1
  ELSE IF s1.inst[i].popupEl # "el" THEN Throw(s1)
  ELSE
    LET s2 == Log([s1 EXCEPT !.dom[i].display = "none"], Ev("close", i, NoCb, "-")) IN
    IF Truthy(s2.inst[i].disposable)
    THEN LET s3 == destroy(s2, i) IN
         IF s3.err THEN s3 ELSE [s3 EXCEPT !.ret = "true"]
    ELSE [s2 EXCEPT !.ret = "this"]

\* variant of destroy(): disposable is left as it is for the forced close()
destroyKeepsDisposable(s, i) ==
  LET s1 == IF s.inst[i].isClosed # "true" THEN close(s, i) ELSE s IN
  IF s1.err THEN s1
  ELSE IF s1.inst[i].containerEl # "el" THEN Throw(s1)
  ELSE IF Truthy(s1.inst[i].mask) /\ s1.inst[i].maskEl # "el" THEN Throw(s1)
  ELSE Teardown(s1, i)

destroy(s, i) ==
  LET s1 == IF s.inst[i].isClosed # "true"
            THEN close([s EXCEPT !.inst[i].disposable = "false"], i)
            ELSE s
  IN
  IF s1.err THEN s1
  \* removeEvent on an element that was never created raises
  ELSE IF s1.inst[i].containerEl # "el" THEN Throw(s1)
  ELSE IF Truthy(s1.inst[i].mask) /\ s1.inst[i].maskEl # "el" THEN Throw(s1)
  ELSE Teardown(s1, i)

refresh(s, i) ==
  LET s1 == _calculateSize(s, i) IN
  IF s1.err THEN s1 ELSE [s1 EXCEPT !.ret = "this"]

(* ---- callbacks ---- *)
\* eventsList.h && eventsList.h(arg), called from instance i's handler
Invoke(s, i, h, arg) ==
  LET c == s.ev[h] IN
  IF IsFn(c)
  THEN Log([s EXCEPT !.fired = @ \cup {c}], Ev("call", i, c, arg))
  ELSE s

\* lines 170-171: the close hooks create() registers
RegisterClose(ev, i, o) ==
  LET e1 == [ev EXCEPT !.beforeClose =
               IF o.beforeClose THEN Cb(i, "beforeClose") ELSE NoCb] IN
  [e1 EXCEPT !.beforeClose = IF o.afterClose THEN Cb(i, "afterClose") ELSE NoCb]

create(s, i, o) ==
  LET s1 == [s EXCEPT !.inst[i].prefixClass = "",
                      !.inst[i].closeOnMask = o.closeOnMask,
                      !.inst[i].autoSize = o.autoSize,
                      !.inst[i].delayCalculate = o.delayCalculate,
                      !.ev = RegisterClose(s.ev, i, o),
                      !.inst[i].disposable = "false",
                      !.inst[i].given = {h \in {"beforeClose", "afterClose"} : o[h]}]
      s2 == _createDOM(s1, i, o.size)
      s3 == IF s2.err THEN s2 ELSE _bindEvents(s2, i)
  IN IF s3.err THEN s3 ELSE [s3 EXCEPT !.ret = "this", !.inst[i].built = "create"]

(* ---- dialog presets ---- *)
\* the argument forms of alert/confirm/prompt: an options object, (txt, fn
\* [, fn]) or txt alone; hooks are the callbacks the preset takes
PresetArgs(s, i, a, hooks) ==
  LET reg(ev) == [h \in Hooks |->
                    IF h \in hooks
                    THEN (IF a[h] THEN Cb(i, h) ELSE NoCb)
                    ELSE ev[h]]
  IN
  IF a.form = "obj"
  THEN [s EXCEPT !.inst[i].mask = Bool(a.mask),
                 !.inst[i].closeOnMask = a.closeOnMask,
                 !.inst[i].autoSize = a.autoSize,
                 !.inst[i].delayCalculate = a.delayCalculate,
                 !.ev = reg(s.ev),
                 !.inst[i].given = {h \in hooks : a[h]}]
  ELSE IF a.okCallback
  THEN [s EXCEPT !.ev = reg(s.ev), !.inst[i].given = {h \in hooks : a[h]}]
  ELSE s

Preset(s, i, a, name, prefix, hooks) ==
  LET s1 == PresetArgs(s, i, a, hooks)
      s2 == [s1 EXCEPT !.inst[i].prefixClass = prefix]
      s3 == _createDOM(s2, i, a.size)
      s4 == IF s3.err THEN s3 ELSE _bindEvents(s3, i)
  IN IF s4.err THEN s4 ELSE [s4 EXCEPT !.inst[i].built = name]

alert(s, i, a) ==
  LET s1 == Preset(s, i, a, "alert", "alert-", {"okCallback"})
      s2 == IF s1.err THEN s1 ELSE open(s1, i)
  IN IF s2.err THEN s2 ELSE [s2 EXCEPT !.ret = "this"]

confirm(s, i, a) ==
  LET s1 == Preset(s, i, a, "confirm", "confirm-", {"okCallback", "cancelCallback"})
      s2 == IF s1.err THEN s1 ELSE open(s1, i)
  IN IF s2.err THEN s2 ELSE [s2 EXCEPT !.ret = "this"]

\* variant of prompt's ok handler: the click is left to bubble
promptOkBubbles(s, i, val) ==
  close(Invoke(s, i, "okCallback", val), i)

\* lines 504-515: the handler prompt() binds on its ok affordance
promptOk(s, i, val) ==
  LET s1 == Invoke(s, i, "okCallback", val)
      s2 == close(s1, i)
  IN IF s2.err THEN s2 ELSE [s2 EXCEPT !.stopped = TRUE]

prompt(s, i, a) ==
  LET s1 == Preset(s, i, a, "prompt", "prompot-", {"okCallback", "cancelCallback"})
      s2 == IF s1.err THEN s1
            ELSE open([s1 EXCEPT !.dom[i].listeners = @ \cup {"ok"}], i)
  IN IF s2.err THEN s2 ELSE [s2 EXCEPT !.ret = "this"]

(* ---- event dispatch ---- *)
CloseWithHooks(s, i) ==
  LET s1 == Invoke(s, i, "beforeClose", "-")
      s2 == close(s1, i)
  IN IF s2.err THEN s2 ELSE Invoke(s2, i, "afterClose", "-")

CloseThen(s, i, h) ==
  LET s1 == close(s, i) IN
  IF s1.err THEN s1 ELSE Invoke(s1, i, h, "-")

\* variant of the container dispatcher: the ok class is tested first
_onContainerOkFirst(s, i, classes) ==
  IF hasClass(classes, "popup-ok") THEN CloseThen(s, i, "okCallback")
  ELSE IF hasClass(classes, "popup-close") THEN CloseWithHooks(s, i)
  ELSE IF hasClass(classes, "popup-cancel") THEN CloseThen(s, i, "cancelCallback")
  ELSE s

_onContainer(s, i, classes) ==
  IF hasClass(classes, "popup-close") THEN CloseWithHooks(s, i)
  ELSE IF hasClass(classes, "popup-ok") THEN CloseThen(s, i, "okCallback")
  ELSE IF hasClass(classes, "popup-cancel") THEN CloseThen(s, i, "cancelCallback")
  ELSE s

\* variant of the mask dispatcher: closeOnMask is not consulted
_onMaskAlways(s, i) ==
  CloseWithHooks(s, i)

_onMask(s, i) ==
  IF s.inst[i].closeOnMask THEN CloseWithHooks(s, i) ELSE s

(* ---- inputs ---- *)
Selectors == {"none", "match", "nomatch"}
Views     == (MarginW + 1) .. (MarginW + MaxView)
Heights   == (MarginH + 1) .. (MarginH + MaxView)
AllSizes  == (1 .. MaxNat) \X (1 .. MaxNat)
LifeSizes == {<<1, 1>>, <<MaxNat, MaxNat>>}
Classes   == {"popup-close", "popup-ok", "popup-cancel"}
Values    == {"", "x"}
Delays    == {"undefined", "ms"}

\* option records of create(): closeOnMask, autoSize, delayCalculate and
\* whether beforeClose and afterClose are given
CreateOptions(Sizes) ==
  [closeOnMask : BOOLEAN, autoSize : BOOLEAN, delayCalculate : Delays,
   beforeClose : BOOLEAN, afterClose : BOOLEAN, size : Sizes]

\* argument forms of the presets: an options object ("obj") or positional
\* (txt [, okCallback [, cancelCallback]])
ObjectForms(Sizes) ==
  [form : {"obj"}, mask : BOOLEAN, closeOnMask : BOOLEAN, autoSize : BOOLEAN,
   delayCalculate : Delays, okCallback : BOOLEAN, cancelCallback : BOOLEAN,
   size : Sizes]

PositionalForms(Sizes, fns) ==
  {[form |-> "pos", mask |-> TRUE, closeOnMask |-> FALSE, autoSize |-> TRUE,
    delayCalculate |-> "undefined", okCallback |-> f[1], cancelCallback |-> f[2],
    size |-> z] : f \in fns, z \in Sizes}

PresetForms(Sizes) ==
  ObjectForms(Sizes)
    \cup PositionalForms(Sizes, {<<FALSE, FALSE>>, <<TRUE, FALSE>>, <<TRUE, TRUE>>})

\* the inputs of one specification
Inputs(sel, co, af, cf, pf) ==
  [selectors |-> sel, create |-> co, alert |-> af, confirm |-> cf, prompt |-> pf]

\* the elements of a popup's content a click can land on, by their classes
Affordances(i) ==
  CASE inst[i].built = "create"  ->
         {{}, {"popup-close"}, {"popup-ok"}, {"popup-cancel"},
          {"popup-ok", "popup-cancel"}, Classes}
    [] inst[i].built = "alert"   -> {{}, {"popup-close"}, {"popup-ok"}}
    [] inst[i].built = "confirm" -> {{}, {"popup-close"}, {"popup-ok"}, {"popup-cancel"}}
    [] inst[i].built = "prompt"  -> {{}, {"popup-close"}, {"popup-cancel"}}
    [] OTHER -> {}

Visible(i) == dom[i].attached /\ dom[i].display = ""

(* ---- initial state ---- *)
InitProgram ==
  /\ inst = [i \in Inst |-> NoInst]
  /\ dom = [i \in Inst |-> NoDom]
  /\ _eventsList = [h \in Hooks |-> NoCb]
  /\ fired = {}
  /\ timers = [i \in Inst |-> 0]
  /\ trace = <<>>
  /\ last = [op |-> "-", who |-> "-", arg |-> "-", classes |-> {},
             result |-> "-", stopped |-> FALSE]

\* pageScroll keeps the scroll handler the page itself installed on the element
InitPage(onscrolls) ==
  \E h \in onscrolls :
    target = [e \in Elems |-> [onscroll |-> h, position |-> "", pageScroll |-> h]]

InitLayout(ws, hs, bars) ==
  /\ \E w \in ws, h \in hs :
       client = [e \in {"documentElement", "div"} |-> [w |-> w, h |-> h]]
  /\ scrollBar \in bars

Init ==
  /\ InitProgram
  /\ InitPage({NullH, PageH})
  /\ InitLayout({MarginW + MaxView}, {MarginH + MaxView}, {MaxBar})

(* ---- actions ---- *)
Commit(op, i, arg, classes, r) ==
  /\ \A j \in Inst : r.timers[j] <= MaxTimers
  /\ inst' = r.inst
  /\ dom' = r.dom
  /\ target' = r.target
  /\ _eventsList' = r.ev
  /\ fired' = r.fired
  /\ timers' = r.timers
  /\ trace' = r.trace
  /\ last' = [op |-> op, who |-> i, arg |-> arg, classes |-> classes,
              result |-> IF r.err THEN "throw" ELSE r.ret, stopped |-> r.stopped]
  /\ UNCHANGED <<client, scrollBar>>

\* instances are constructed in the order p1, p2
Before(i) == IF i = "p1" THEN {} ELSE {"p1"}

New(i, in) ==
  /\ ~inst[i].made
  /\ \A j \in Before(i) : inst[j].made
  /\ \E selector \in in.selectors :
       Commit("Popup", i, selector, {},
              [S EXCEPT !.inst[i] = Popup(selector), !.ret = "this"])

\* create() or a preset is called once, on a fresh instance
Fresh(i) == inst[i].made /\ inst[i].popupEl = "undefined"
\* the lifecycle methods are called on an instance create() or a preset built
Built(i) == inst[i].made /\ inst[i].popupEl # "undefined"

Create(i, in) ==
  /\ Fresh(i)
  /\ \E o \in in.create : Commit("create", i, "-", {}, create(S, i, o))

Alert(i, in) ==
  /\ Fresh(i)
  /\ \E a \in in.alert : Commit("alert", i, a.form, {}, alert(S, i, a))

Confirm(i, in) ==
  /\ Fresh(i)
  /\ \E a \in in.confirm : Commit("confirm", i, a.form, {}, confirm(S, i, a))

Prompt(i, in) ==
  /\ Fresh(i)
  /\ \E a \in in.prompt : Commit("prompt", i, a.form, {}, prompt(S, i, a))

Open(i)    == Built(i) /\ Commit("open", i, "-", {}, open(S, i))
Close(i)   == Built(i) /\ Commit("close", i, "-", {}, close(S, i))
Refresh(i) == Built(i) /\ Commit("refresh", i, "-", {}, refresh(S, i))
Destroy(i) == Built(i) /\ Commit("destroy", i, "-", {}, destroy(S, i))

\* a click or touch inside the container, on an element with these classes
ClickContainer(i) ==
  /\ Visible(i) /\ "container" \in dom[i].listeners
  /\ \E classes \in Affordances(i) :
       Commit("click", i, "-", classes, _onContainer(S, i, classes))

\* a click on prompt's ok affordance: its own handler, then the container's
\* unless the propagation was stopped
ClickPromptOk(i) ==
  /\ Visible(i) /\ "ok" \in dom[i].listeners
  /\ \E val \in Values :
       LET r == promptOk(S, i, val) IN
       Commit("clickOk", i, val, {"popup-ok"},
              IF r.stopped \/ "container" \notin dom[i].listeners THEN r
              ELSE _onContainer([r EXCEPT !.err = FALSE], i, {"popup-ok"}))

ClickMask(i) ==
  /\ Visible(i) /\ dom[i].hasMaskEl /\ "mask" \in dom[i].listeners
  /\ Commit("clickMask", i, "-", {}, _onMask(S, i))

\* the timer set by open() fires
Timer(i) ==
  /\ timers[i] > 0
  /\ Commit("timer", i, "-", {}, _calculateSize([S EXCEPT !.timers[i] = @ - 1], i))

\* the caller replaces the inner content of a built popup (before refresh())
SetContent(i, Sizes) ==
  /\ Built(i) /\ dom[i].attached
  /\ \E z \in Sizes :
       /\ z # <<dom[i].natW, dom[i].natH>>
       /\ Commit("content", i, "-", {},
                 [S EXCEPT !.dom[i].natW = z[1], !.dom[i].natH = z[2]])

Step(i, in) ==
  \/ New(i, in)
  \/ Create(i, in)
  \/ Alert(i, in)
  \/ Confirm(i, in)
  \/ Prompt(i, in)
  \/ Open(i)
  \/ Close(i)
  \/ Refresh(i)
  \/ Destroy(i)
  \/ ClickContainer(i)
  \/ ClickPromptOk(i)
  \/ ClickMask(i)
  \/ Timer(i)

(* ---- one popup, every option ---- *)
OneInputs ==
  Inputs(Selectors, CreateOptions(LifeSizes), PresetForms(LifeSizes),
         PresetForms(LifeSizes), PresetForms(LifeSizes))

Next == Step("p1", OneInputs)

Spec == Init /\ [][Next]_vars

(* ---- two popups on one page ---- *)
TwoCreate ==
  {o \in CreateOptions({<<1, 1>>}) :
     /\ o.autoSize /\ o.beforeClose = o.afterClose
     /\ <<o.closeOnMask, o.delayCalculate, o.beforeClose>>
          \in {<<TRUE, "undefined", TRUE>>, <<FALSE, "ms", FALSE>>}}

TwoObject ==
  {a \in ObjectForms({<<1, 1>>}) :
     /\ ~a.mask /\ ~a.closeOnMask /\ ~a.autoSize /\ a.delayCalculate = "undefined"
     /\ a.okCallback /\ a.cancelCallback}

TwoInputs ==
  Inputs({"none"}, TwoCreate,
         TwoObject \cup PositionalForms({<<1, 1>>}, {<<FALSE, FALSE>>}),
         PositionalForms({<<1, 1>>}, {<<TRUE, TRUE>>}),
         PositionalForms({<<1, 1>>}, {<<TRUE, FALSE>>}))

InitTwo ==
  /\ InitProgram
  /\ InitPage({PageH})
  /\ InitLayout({MarginW + MaxView}, {MarginH + MaxView}, {MaxBar})

NextTwo == \E i \in Inst : Step(i, TwoInputs)

SpecTwo == InitTwo /\ [][NextTwo]_vars

(* ---- size adaptation over every content and viewport size ---- *)
SizeCreate ==
  {o \in CreateOptions(AllSizes) :
     /\ o.autoSize /\ ~o.closeOnMask /\ o.delayCalculate = "undefined"
     /\ ~o.beforeClose /\ ~o.afterClose}

SizeAlert ==
  {a \in ObjectForms(AllSizes) :
     /\ a.autoSize /\ ~a.closeOnMask /\ a.delayCalculate = "undefined"
     /\ ~a.okCallback /\ ~a.cancelCallback}

SizeInputs == Inputs({"none"}, SizeCreate, SizeAlert, {}, {})

InitSize ==
  /\ InitProgram
  /\ InitPage({NullH})
  /\ InitLayout(Views, Heights, 0 .. MaxBar)

NextSize ==
  \/ New("p1", SizeInputs)
  \/ Create("p1", SizeInputs)
  \/ Alert("p1", SizeInputs)
  \/ Open("p1")
  \/ Close("p1")
  \/ Refresh("p1")
  \/ SetContent("p1", AllSizes)

SpecSize == InitSize /\ [][NextSize]_vars

(***************************************************************************)
(* Properties                                                              *)
(***************************************************************************)
Methods == {"open", "close", "refresh", "destroy"}
Presets == {"alert", "confirm", "prompt"}
Destroyed(i) == inst[i].popupEl = "null"
Count(seq, e) == Cardinality({k \in DOMAIN seq : seq[k].ev = e})
CallsIn(seq) == {seq[k].cb : k \in {n \in DOMAIN seq : seq[n].ev = "call"}}
\* the event of instance i's handler calling c, nothing when c is no function
Called(i, c, arg) == IF IsFn(c) THEN <<Ev("call", i, c, arg)>> ELSE <<>>
\* the events of one close(): the hide, and the teardown of a disposable
Closing(i, disposable) ==
  <<Ev("close", i, NoCb, "-")>>
    \o (IF disposable THEN <<Ev("teardown", i, NoCb, "-")>> ELSE <<>>)
ProgramUnchanged == UNCHANGED <<inst, dom, target, _eventsList, fired, timers>>

\* C1: Popup(selector) binds the handle to the first element matching the
\* selector, and to the document body when no selector is given or nothing
\* matches; targetEl is never null.
Expected(selector) ==
  IF selector = "none" THEN "body" ELSE JsOr(querySelector(selector), "body")

C1_FactoryBindsTarget ==
  last.op = "Popup" =>
    /\ inst[last.who].targetEl = Expected(last.arg)
    /\ inst[last.who].targetEl # "null"

\* C2: after open() with autoSize true and no delayCalculate, the width applied
\* to the container is at most viewportWidth-100 and the height applied is at
\* most viewportHeight-80, for every content size and viewport size.
OpenedNow(i) ==
  /\ last.who = i /\ last.op \in {"open", "alert"} /\ last.result = "this"
  /\ inst[i].autoSize /\ inst[i].delayCalculate = "undefined"

C2_OpenFitsViewport ==
  \A i \in Inst :
    OpenedNow(i) =>
      /\ dom[i].contW <= client["documentElement"].w - MarginW
      /\ dom[i].contH <= client["documentElement"].h - MarginH

\* C3: for a single mask-bearing instance, while it is open the installed
\* scroll handler is its scroll-lock handler; after open() calls followed by
\* close() the target's scroll handler is the one the page had before the first
\* open(); the saved handler is never a lock handler.
C3_ScrollHandlerRestored ==
  \A i \in Inst :
    LET p == inst[i] IN
    dom[i].hasMaskEl =>
      /\ (p.isClosed = "false" /\ ~Destroyed(i)) =>
           target[p.targetEl].onscroll = LockH(i)
      /\ (p.opened /\ p.isClosed = "true") =>
           target["body"].onscroll = p.preOpen
      /\ p._scrollEvent.kind # "lock"
      /\ p.opened => p._scrollEvent = p.preOpen

C3_Witness ==
  /\ last.op = "close" /\ last.result = "this"
  /\ dom["p1"].hasMaskEl /\ inst["p1"].opened
  /\ inst["p1"].preOpen = PageH
  /\ target["body"].onscroll = PageH

\* C4: on an instance built by create(), every open() - the first one and one
\* after close() - leaves the wrapper visible, isClosed false, the scroll-lock
\* handler installed and the saved scroll handler the original one; close()
\* never destroys the instance.
BuiltByCreate(i) == inst[i].built = "create"

C4_ReopenLikeFirstOpen ==
  \A i \in Inst :
    BuiltByCreate(i) /\ last.who = i /\ last.result # "throw" =>
      /\ last.op = "open" =>
           /\ dom[i].display = "" /\ dom[i].attached
           /\ inst[i].isClosed = "false"
           /\ target[inst[i].targetEl].onscroll = LockH(i)
           /\ inst[i]._scrollEvent = inst[i].preOpen
      /\ last.op = "close" =>
           /\ ~Destroyed(i) /\ dom[i].attached
           /\ last.result = "this"
           /\ Count(trace, "teardown") = 0

\* a created popup that was closed by a click on its close affordance (its hook
\* fired) and is open again
C4_Witness ==
  /\ last.op = "open" /\ last.who = "p1" /\ last.result = "this"
  /\ BuiltByCreate("p1")
  /\ Cb("p1", "afterClose") \in fired
  /\ inst["p1"].preOpen = PageH

\* C5: an instance created by alert, confirm or prompt is destroyed by its
\* first close(), and every later open(), close(), refresh() or destroy() on
\* it fails with an error.
C5_Step ==
  \A i \in Inst :
    (inst[i].built \in Presets /\ last'.who = i /\ last'.op \in Methods) =>
      /\ (last'.op = "close" /\ last'.result # "throw") =>
           /\ ~Destroyed(i) /\ Destroyed(i)'
           /\ ~dom'[i].attached /\ inst'[i].targetEl = "null"
      /\ Destroyed(i) => last'.result = "throw"

C5_DisposableUnusableAfterClose == [][C5_Step]_vars

C5_Witness ==
  /\ last.op = "refresh" /\ last.who = "p1" /\ last.result = "throw"
  /\ inst["p1"].built = "confirm" /\ Destroyed("p1")
  /\ inst["p1"].opened

\* C6: for confirm(text, cb1, cb2), a click on ok closes the popup and then
\* calls cb1, a click on cancel closes it and then calls cb2, and over the
\* popup's lifecycle at most one of cb1 and cb2 is called, at most once.
C6_Step ==
  \A i \in Inst :
    LET cb1 == Cb(i, "okCallback")
        cb2 == Cb(i, "cancelCallback")
    IN
    (inst[i].built = "confirm" /\ inst[i].given = {"okCallback", "cancelCallback"}) =>
      /\ (last'.who = i /\ last'.op = "click" /\ last'.classes = {"popup-ok"}) =>
           trace' = Closing(i, TRUE) \o Called(i, cb1, "-")
      /\ (last'.who = i /\ last'.op = "click" /\ last'.classes = {"popup-cancel"}) =>
           trace' = Closing(i, TRUE) \o Called(i, cb2, "-")
      /\ \A c \in {cb1, cb2} : c \in CallsIn(trace') => fired \cap {cb1, cb2} = {}
      /\ Cardinality(fired' \cap {cb1, cb2}) <= 1

C6_ConfirmCallsOneCallback == [][C6_Step]_vars

\* C7: a click on prompt's ok affordance calls okCallback exactly once, with
\* the input's value as sole argument, and closes the popup exactly once; the
\* container dispatcher's ok path does not run for that click.
C7_PromptOkOnce ==
  last.op = "clickOk" =>
    LET i == last.who IN
    /\ trace = Called(i, _eventsList.okCallback, last.arg) \o Closing(i, TRUE)
    /\ "okCallback" \in inst[i].given =>
         trace[1] = Ev("call", i, Cb(i, "okCallback"), last.arg)
    /\ last.stopped /\ last.result = "true"
    /\ Destroyed(i)

C7_Witness ==
  /\ last.op = "clickOk" /\ last.arg = "x"
  /\ Len(trace) = 3 /\ trace[1] = Ev("call", "p1", Cb("p1", "okCallback"), "x")

\* C8: create({beforeClose: b, afterClose: a}) registers b as the beforeClose
\* hook and a as the afterClose hook, each in its own slot: a click on the
\* close affordance calls b before the popup closes and a after it has closed.
C8_CreateRegistersHooks ==
  \A i \in Inst :
    LET b == Cb(i, "beforeClose")
        a == Cb(i, "afterClose")
    IN
    (inst[i].built = "create" /\ inst[i].given = {"beforeClose", "afterClose"}
       /\ last.who = i) =>
      /\ last.op = "create" =>
           _eventsList.beforeClose = b /\ _eventsList.afterClose = a
      /\ (last.op = "click" /\ "popup-close" \in last.classes) =>
           trace = Called(i, b, "-") \o Closing(i, FALSE) \o Called(i, a, "-")

\* C9: a click on the mask when closeOnMask is false leaves the popup open and
\* invokes no callback; when closeOnMask is true it closes the popup, the
\* beforeClose hook fired before the close and the afterClose hook after it.
C9_Step ==
  last'.op = "clickMask" =>
    LET i == last'.who IN
    IF inst[i].closeOnMask
    THEN /\ trace' = Called(i, _eventsList.beforeClose, "-")
                       \o Closing(i, Truthy(inst[i].disposable))
                       \o Called(i, _eventsList.afterClose, "-")
         /\ inst'[i].isClosed = "true" /\ dom'[i].display = "none"
    ELSE /\ trace' = <<>>
         /\ inst'[i].isClosed = "false" /\ dom'[i].display = ""
         /\ ProgramUnchanged

C10_Step ==
  last'.op = "click" =>
    LET i   == last'.who
        cls == last'.classes
        cl  == Closing(i, Truthy(inst[i].disposable))
        ev  == _eventsList
    IN
    IF "popup-close" \in cls
    THEN trace' = Called(i, ev.beforeClose, "-") \o cl \o Called(i, ev.afterClose, "-")
    ELSE IF "popup-ok" \in cls
    THEN trace' = cl \o Called(i, ev.okCallback, "-")
    ELSE IF "popup-cancel" \in cls
    THEN trace' = cl \o Called(i, ev.cancelCallback, "-")
    ELSE trace' = <<>> /\ ProgramUnchanged

C11_Step ==
  \A i \in Inst :
    (last'.op = "timer" /\ last'.who = i /\ Destroyed(i)) =>
      /\ last'.result # "throw"
      /\ dom'[i] = dom[i]

C11_DeferredCalcSkipsDestroyed == [][C11_Step]_vars

\* C12: isClosed is true after construction and after the DOM build of
\* create() or a preset as long as open() has not run, and it is true in every
\* state reached by a close() with no open() after it.
Opens == {"open", "alert", "confirm", "prompt"}

C12_Step ==
  \A i \in Inst :
    /\ (inst'[i].made /\ ~inst'[i].opened) => inst'[i].isClosed = "true"
    /\ (last'.who = i /\ last'.op = "close") => inst'[i].isClosed = "true"
    /\ (inst[i].isClosed = "true" /\ ~(last'.who = i /\ last'.op \in Opens)) =>
         inst'[i].isClosed = "true"

C12_ClosedBeforeFirstOpen == [][C12_Step]_vars

\* C13: after destroy(), called directly or through a disposable close(),
\* all element references of the instance are null: target, wrapper, mask,
\* container, inner content and close affordance.
C13_ReferencesNullAfterDestroy ==
  \A i \in Inst :
    (last.who = i /\ last.result # "throw" /\ Count(trace, "teardown") > 0) =>
      /\ inst[i].targetEl = "null"
      /\ inst[i].popupEl = "null"
      /\ inst[i].maskEl = "null"
      /\ inst[i].containerEl = "null"
      /\ inst[i].innerEl = "null"
      /\ inst[i].closeEl = "null"

\* C14: for an instance whose DOM was built and that is not destroyed, the
\* wrapper is displayed exactly when the instance is open: open() makes
\* isClosed false and the wrapper visible, close() makes isClosed true and the
\* wrapper hidden, and no other operation (refresh, the deferred size
\* calculation, a click on no affordance, a call on another instance) changes
\* either.
Live(i) == inst[i].built # "-" /\ ~Destroyed(i)

C14_Step ==
  \A i \in Inst :
    Live(i)' =>
      /\ dom'[i].display = "" <=> inst'[i].isClosed = "false"
      /\ (last'.who = i /\ last'.op = "open") =>
           inst'[i].isClosed = "false" /\ dom'[i].display = ""
      /\ (last'.who = i /\ last'.op = "close") =>
           inst'[i].isClosed = "true" /\ dom'[i].display = "none"
      /\ (Live(i) /\ (\/ last'.who # i
                      \/ last'.op \in {"refresh", "timer", "content"}
                      \/ last'.op = "click" /\ last'.classes \cap Classes = {})) =>
           inst'[i].isClosed = inst[i].isClosed /\ dom'[i].display = dom[i].display

C14_DisplayedIffOpen == [][C14_Step]_vars

C14_Witness ==
  /\ last.op = "refresh" /\ last.who = "p1" /\ last.result = "this"
  /\ Live("p1") /\ inst["p1"].opened
  /\ inst["p1"].isClosed = "true" /\ dom["p1"].display = "none"

\* C15: close() on a disposable instance performs the destroy within the same
\* call and returns a completion value that is not the instance; close() on a
\* non-disposable instance performs no destroy and returns the instance.
C15_Step ==
  \A i \in Inst :
    (last'.who = i /\ last'.op = "close" /\ last'.result # "throw") =>
      IF Truthy(inst[i].disposable)
      THEN /\ last'.result = "true"
           /\ Count(trace', "teardown") = 1
           /\ ~Destroyed(i) /\ Destroyed(i)' /\ ~dom'[i].attached
      ELSE /\ last'.result = "this"
           /\ Count(trace', "teardown") = 0
           /\ ~Destroyed(i)' /\ dom'[i].attached = dom[i].attached
           /\ inst'[i].targetEl = inst[i].targetEl

C16_Step ==
  \A i \in Inst :
    (Live(i) /\ last'.who = i) =>
      /\ last'.op = "destroy" =>
           /\ last'.result # "throw"
           /\ trace' = (IF inst[i].isClosed = "true" THEN <<>>
                        ELSE <<Ev("close", i, NoCb, "-")>>)
                       \o <<Ev("teardown", i, NoCb, "-")>>
           /\ Destroyed(i)' /\ ~dom'[i].attached /\ dom'[i].display = "none"
           /\ (inst[i].isClosed = "false" /\ dom[i].hasMaskEl) =>
                target'[inst[i].targetEl].onscroll = inst[i].preOpen
      /\ (last'.op = "close" /\ Truthy(inst[i].disposable)) =>
           /\ last'.result # "throw"
           /\ trace' = Closing(i, TRUE)

C16_DestroyClosesOnce == [][C16_Step]_vars

C16_Witness ==
  /\ last.op = "destroy" /\ last.who = "p1" /\ last.result # "throw"
  /\ inst["p1"].built = "confirm" /\ dom["p1"].hasMaskEl /\ Destroyed("p1")
  /\ trace = Closing("p1", TRUE)
  /\ target["body"].onscroll = PageH

\* C17: when the natural content width is below viewportWidth-100 and the
\* natural height is below viewportHeight-80, size adaptation (on a displayed
\* popup) applies exactly the natural width and height to the inner content
\* and to the container, and leaves horizontal and vertical scrolling disabled.
Adapted(i) ==
  /\ last.who = i /\ last.result = "this" /\ Visible(i)
  /\ \/ last.op = "refresh"
     \/ /\ last.op \in {"open", "alert"}
        /\ inst[i].autoSize /\ inst[i].delayCalculate = "undefined"

Fits(i) ==
  /\ dom[i].natW < client["documentElement"].w - MarginW
  /\ dom[i].natH < client["documentElement"].h - MarginH

C17_NaturalSizeKept ==
  \A i \in Inst :
    (Adapted(i) /\ Fits(i)) =>
      /\ dom[i].innerW = dom[i].natW /\ dom[i].contW = dom[i].natW
      /\ dom[i].innerH = dom[i].natH /\ dom[i].contH = dom[i].natH
      /\ dom[i].overflowX = "hidden" /\ dom[i].overflowY = "hidden"

\* C18: when the mask option is false, no open(), close(), refresh() or
\* destroy() on the instance (nor any other step of it) reads or writes the
\* target's scroll handler: onscroll is unchanged and nothing is saved.
MaskOff(i) ==
  \/ inst[i].mask = "false"
  \/ inst[i].mask = "null" /\ inst[i].built # "-" /\ ~dom[i].hasMaskEl

C18_Step ==
  \A i \in Inst :
    (last'.who = i /\ MaskOff(i)') =>
      /\ \A e \in Elems : target'[e].onscroll = target[e].onscroll
      /\ inst'[i]._scrollEvent = UndefH

C18_NoMaskNoScrollHandler == [][C18_Step]_vars

C18_Witness ==
  /\ last.op = "destroy" /\ last.who = "p1" /\ last.result # "throw"
  /\ inst["p1"].built = "alert" /\ ~dom["p1"].hasMaskEl /\ Destroyed("p1")
  /\ trace = Closing("p1", TRUE)
  /\ target["body"].onscroll = PageH

\* C19: callbacks are isolated per instance: a handler registered through one
\* instance is never invoked by a click on another instance, and an instance
\* created without a handler for a hook invokes nothing for that hook,
\* whatever other instances were created before or after it.
C19_CallbacksPerInstance ==
  \A k \in DOMAIN trace :
    trace[k].ev = "call" =>
      /\ trace[k].who = last.who
      /\ trace[k].cb.by = last.who
      /\ trace[k].cb.hook \in inst[last.who].given

\* C20: destroy() or close() on a mask-bearing instance that was created but
\* never opened leaves the target's pre-existing scroll handler unchanged.
C20_Step ==
  \A i \in Inst :
    (/\ last'.who = i /\ last'.op \in {"close", "destroy"}
     /\ Live(i) /\ dom[i].hasMaskEl /\ ~inst[i].opened) =>
      \A e \in Elems : target'[e].onscroll = target[e].onscroll

C20_NeverOpenedKeepsHandler == [][C20_Step]_vars

\* C21: for two mask-bearing popups on the same target, in every interleaving
\* of their open() and close() calls, once both are closed the target's scroll
\* handler is the handler it had before either was opened: no scroll-lock
\* handler of a closed popup remains installed.
BothClosed ==
  \A i \in Inst :
    /\ inst[i].built # "-" /\ dom[i].hasMaskEl /\ dom[i].parent \in {"body", "-"}
    /\ inst[i].opened /\ inst[i].isClosed = "true"

C21_BothClosedRestores ==
  (/\ BothClosed
   /\ \A i \in Inst : \/ inst[i].preOpen = target["body"].pageScroll
                      \/ inst[i].preOpen.kind = "lock") =>
    /\ target["body"].onscroll = target["body"].pageScroll
    /\ target["body"].onscroll.kind # "lock"

====
